---- MODULE Spec2Model ----
(***************************************************************************)
(* The event relay and reassembly pipeline of the Responses API demo.      *)
(*                                                                         *)
(*   Relay Adapter  POST / ReadableStream.start of the chat route          *)
(*                  (src/unnamed/part_000; src/src/app/api/chat/route.ts   *)
(*                  is the same handler without the web-search cases).     *)
(*   Stream Reader  handleSubmit of src/src/app/page.tsx.                  *)
(*                                                                         *)
(* Text is a sequence of characters, so that concatenation is \o.  The     *)
(* outbound stream is the sequence of frames the adapter enqueued; what    *)
(* the reader gets is the byte stream of those frames, delivered in chunks *)
(* whose boundaries the transport chooses.                                 *)
(***************************************************************************)
EXTENDS Integers, Sequences, FiniteSets, TLC

\* ------------------------------------------------------------------ bounds
MaxUpstream == 3        \* upstream events delivered per page load
MaxTime == 1            \* the clock stops advancing here
MaxTurns == 2           \* submissions per page load
MaxCuts == 1            \* reads per page load that end inside a record
MaxRefused == 1         \* submit events per page load that the guard refuses

\* ------------------------------------------------------------------ state
VARIABLES
    \* the clock Date.now() reads
    now,
    \* Relay Adapter, one invocation per request
    adapterPc,          \* "none" | "iterating" | "closed" | "abandoned" | "drained"
    upstream,           \* the upstream events read so far
    pending,            \* what the awaited iterator has delivered, not yet handled
    currentMessage,
    lastEventType,
    adapterSearchResults, \* webSearchResults of the adapter
    out,                \* the frames emitEvent was called with
    wire,               \* the bytes enqueued on the outbound stream
    \* the HTTP exchange
    http,               \* "none" | "sent" | "ok" | "fail"
    \* Stream Reader: React state
    apiEvents,
    messages,
    isLoading,
    error,
    totalElapsedTime,
    webSearchResults,
    \* Stream Reader: locals of handleSubmit
    clientPc,           \* "idle" | "fetching" | "reading"
    startTime,
    assistantMessage,
    lastEventTime,
    rd,                 \* bytes of the outbound stream read so far
    \* history
    rx,                 \* the frames the reader has parsed in this request
    raised,             \* the failure raised while iterating the upstream, if any
    turns,              \* submissions so far
    delivered,          \* upstream events delivered so far, over all requests
    cuts,               \* reads so far that ended inside a record
    \* the request and the upstream session opened for it
    route,              \* the source file that serves /api/chat
    enableWebSearch,    \* React state of the checkbox
    body,               \* the body of the POST the client sent
    sessions,           \* the arguments of the openai.responses.create calls
    \* the environment of the request
    cancelled,          \* the client has closed the connection
    unnoticed,          \* upstream events read since then with the loop going on
    other,              \* a concurrent invocation of the route, for another browser
    refused             \* submissions handleSubmit returned from at its guard

adapterVars == <<adapterPc, upstream, pending, currentMessage, lastEventType,
                 adapterSearchResults, out, wire>>
reactVars == <<apiEvents, messages, isLoading, error, totalElapsedTime,
               webSearchResults>>
localVars == <<clientPc, startTime, assistantMessage, lastEventTime, rd>>
history == <<rx, raised, turns, delivered, cuts>>
requestVars == <<route, enableWebSearch, body, sessions>>
envVars == <<cancelled, unnoticed, other, refused>>
vars == <<now, adapterVars, http, reactVars, localVars, history, requestVars, envVars>>

\* A value that may be null: <<>> is null, <<x>> is x.
None == <<>>
Some(x) == <<x>>

\* ------------------------------------------------------------------ upstream
\* The vendor's event vocabulary, as the adapter's switch names it.
PassThroughAdded == {"response.created", "response.in_progress",
                     "response.output_item.added", "response.content_part.added"}
PassThroughDone == {"response.output_item.done", "response.content_part.done"}

\* Upstream search results: any object; fields may be missing.
RawResult1 == [title |-> "T1", url |-> "U1", snippet |-> "S1", rank |-> "1"]
RawResult2 == [title |-> "T2"]

Deltas == {<<>>, <<"a">>, <<"b">>}

\* The events an upstream session is drawn from.  "" is an event without a
\* type; "response.future" is a kind the adapter does not know.  A field the
\* event does not carry is left out of the record.
UpstreamEvents ==
    {[type |-> "response.created"], [type |-> "response.output_item.done"],
     [type |-> ""], [type |-> "response.future"],
     [type |-> "response.web_search_call.searching"],
     [type |-> "response.web_search_call.completed"],
     [type |-> "response.web_search_call.failed"],
     [type |-> "response.output_text.done"],
     [type |-> "response.completed"],
     [type |-> "response.failed"],
     [type |-> "response.failed", error |-> [message |-> "quota"]],
     [type |-> "response.failed", response |-> [error |-> [message |-> "quota"]]],
     [type |-> "response.incomplete"],
     [type |-> "response.incomplete", response |-> [incomplete_details |-> "max_tokens"]]}
    \cup {[type |-> "response.output_text.delta", delta |-> d] : d \in Deltas}
    \cup {[type |-> "response.web_search_call.results"]}
    \cup {[type |-> "response.web_search_call.results", results |-> r] :
             r \in {<<>>, <<RawResult1>>, <<RawResult1, RawResult2>>}}

\* The events the upstream sessions of the whole pipeline are drawn from.
CoreEvents ==
    {[type |-> "response.output_text.delta", delta |-> <<"a">>],
     [type |-> "response.output_text.delta", delta |-> <<"b">>],
     [type |-> "response.web_search_call.results", results |-> <<RawResult1, RawResult2>>],
     [type |-> "response.completed"],
     [type |-> "response.failed", error |-> [message |-> "quota"]],
     [type |-> "response.incomplete"]}

\* What iterating the upstream can throw: an Error, or any other value.
CoreThrown == {[isError |-> TRUE, message |-> "network"]}
Thrown == CoreThrown \cup {[isError |-> FALSE, message |-> "x"]}

\* Date.now() of the server, which nothing computes with: one opaque reading.
ServerNow == "Date.now()"

\* ------------------------------------------------------------------ frames
TextFrame(d) == [type |-> "text", value |-> d]
EventFrame(v) == [type |-> "event", value |-> v]
ErrorFrame(v) == [type |-> "error", value |-> v]
DoneFrame == [type |-> "done"]

IsTerminal(f) == f.type \in {"done", "error"}

\* results.map(result => ({title: result.title || '', ...}))
Field(r, name) == IF name \in DOMAIN r THEN r[name] ELSE ""
NormalizeResult(r) ==
    [title |-> Field(r, "title"), url |-> Field(r, "url"), snippet |-> Field(r, "snippet")]
NormalizeResults(rs) == [i \in 1..Len(rs) |-> NormalizeResult(rs[i])]

\* event.error?.message || fallback
ErrorMessageOr(e, fallback) ==
    IF "error" \in DOMAIN e /\ "message" \in DOMAIN e.error
    THEN e.error.message ELSE fallback

C25_IncompleteValueWithoutDetails(e) == [message |-> "Response incomplete"]

\* {message: 'Response incomplete', details: event.response?.incomplete_details};
\* JSON.stringify leaves an undefined details out.
IncompleteValue(e) ==
    IF "response" \in DOMAIN e /\ "incomplete_details" \in DOMAIN e.response
    THEN [message |-> "Response incomplete", details |-> e.response.incomplete_details]
    ELSE [message |-> "Response incomplete"]

\* One pass of the switch on event.type: the frames it emits, the locals it
\* leaves, and how the loop goes on ("continue", "return", "throw").
HandleEvent(e, cm, wsr, t) ==
    LET keep == [frames |-> <<>>, cm |-> cm, wsr |-> wsr, ctl |-> "continue", msg |-> ""]
    IN CASE e.type \in PassThroughAdded \cup PassThroughDone ->
              [keep EXCEPT !.frames = <<EventFrame(e)>>]
         [] e.type = "response.web_search_call.searching" ->
              [keep EXCEPT !.frames =
                  <<EventFrame([type |-> "web_search.started", timestamp |-> t])>>]
         [] e.type = "response.web_search_call.results" ->
              IF "results" \in DOMAIN e
              THEN [keep EXCEPT !.wsr = e.results,
                                !.frames = <<EventFrame([type |-> "web_search.results",
                                                         timestamp |-> t,
                                                         results |-> NormalizeResults(e.results)])>>]
              ELSE keep
         [] e.type = "response.web_search_call.completed" ->
              [keep EXCEPT !.frames =
                  <<EventFrame([type |-> "web_search.completed", timestamp |-> t,
                                resultCount |-> Len(wsr)])>>]
         [] e.type = "response.web_search_call.failed" ->
              [keep EXCEPT !.frames =
                  <<EventFrame([type |-> "web_search.failed", timestamp |-> t,
                                error |-> ErrorMessageOr(e, "Web search failed")])>>]
         [] e.type = "response.output_text.delta" ->
              IF e.delta # <<>>
              THEN [keep EXCEPT !.cm = cm \o e.delta, !.frames = <<TextFrame(e.delta)>>]
              ELSE keep
         [] e.type = "response.output_text.done" ->
              [keep EXCEPT !.frames =
                  <<EventFrame([type |-> "response.output_text.done", timestamp |-> t,
                                finalText |-> cm])>>]
         [] e.type = "response.completed" ->
              [keep EXCEPT !.frames = <<EventFrame(e), DoneFrame>>, !.ctl = "return"]
         [] e.type = "response.failed" ->
              [keep EXCEPT !.ctl = "throw", !.msg = ErrorMessageOr(e, "Response failed")]
         [] e.type = "response.incomplete" ->
              [keep EXCEPT !.frames = <<ErrorFrame(IncompleteValue(e))>>,
                           !.ctl = "return"]
         [] OTHER -> keep

\* The same pass in src/app/api/chat/route.ts: no web-search cases, the
\* output_text.done frame spreads the event, and the message of
\* response.failed is read from event.response.error.
HandleEventRouteTs(e, cm, wsr, t) ==
    LET keep == [frames |-> <<>>, cm |-> cm, wsr |-> wsr, ctl |-> "continue", msg |-> ""]
    IN CASE e.type \in PassThroughAdded \cup PassThroughDone ->
              [keep EXCEPT !.frames = <<EventFrame(e)>>]
         [] e.type = "response.output_text.delta" ->
              IF e.delta # <<>>
              THEN [keep EXCEPT !.cm = cm \o e.delta, !.frames = <<TextFrame(e.delta)>>]
              ELSE keep
         [] e.type = "response.output_text.done" ->
              [keep EXCEPT !.frames =
                  <<EventFrame([x \in DOMAIN e \cup {"finalText"} |->
                                   IF x = "finalText" THEN cm ELSE e[x]])>>]
         [] e.type = "response.completed" ->
              [keep EXCEPT !.frames = <<EventFrame(e), DoneFrame>>, !.ctl = "return"]
         [] e.type = "response.failed" ->
              [keep EXCEPT !.ctl = "throw",
                           !.msg = IF "response" \in DOMAIN e
                                   THEN ErrorMessageOr(e.response, "Response failed")
                                   ELSE "Response failed"]
         [] e.type = "response.incomplete" ->
              [keep EXCEPT !.frames = <<ErrorFrame(IncompleteValue(e))>>,
                           !.ctl = "return"]
         [] OTHER -> keep

\* The two source files of the route handler.
Routes == {"part_000", "route.ts"}

\* The case labels of the switch on event.type in handler r.
WebSearchKinds ==
    {"response.web_search_call.searching", "response.web_search_call.results",
     "response.web_search_call.completed", "response.web_search_call.failed"}
CaseLabels(r) ==
    PassThroughAdded \cup PassThroughDone
    \cup {"response.output_text.delta", "response.output_text.done",
          "response.completed", "response.failed", "response.incomplete"}
    \cup (IF r = "part_000" THEN WebSearchKinds ELSE {})

C24_HandleFailsOnUnknownKind(r, e, cm, wsr, t) ==
    IF e.type \notin CaseLabels(r)
    THEN [frames |-> <<>>, cm |-> cm, wsr |-> wsr, ctl |-> "throw", msg |-> "Unknown event"]
    ELSE IF r = "part_000" THEN HandleEvent(e, cm, wsr, t)
    ELSE HandleEventRouteTs(e, cm, wsr, t)

C27_HandleKeepsLastDeltaOnly(r, e, cm, wsr, t) ==
    LET h == IF r = "part_000" THEN HandleEvent(e, cm, wsr, t)
             ELSE HandleEventRouteTs(e, cm, wsr, t)
    IN IF e.type = "response.output_text.delta" /\ e.delta # <<>>
       THEN [h EXCEPT !.cm = e.delta]
       ELSE h

C29_HandleSendsAccumulatedText(r, e, cm, wsr, t) ==
    LET h == IF r = "part_000" THEN HandleEvent(e, cm, wsr, t)
             ELSE HandleEventRouteTs(e, cm, wsr, t)
    IN IF e.type = "response.output_text.delta" /\ e.delta # <<>>
       THEN [h EXCEPT !.frames = <<TextFrame(h.cm)>>]
       ELSE h

\* The switch of the handler that serves the request.
Handle(r, e, cm, wsr, t) ==
    IF r = "part_000" THEN HandleEvent(e, cm, wsr, t) ELSE HandleEventRouteTs(e, cm, wsr, t)

\* messages.map(msg => ({role: msg.role, content: msg.content}))
RoleAndContent(msgs) ==
    [i \in 1..Len(msgs) |-> [role |-> msgs[i].role, content |-> msgs[i].content]]

\* The argument of openai.responses.create for a request with body b.
CreateArgs(r, b) ==
    IF r = "part_000"
    THEN [model |-> "gpt-4o", input |-> RoleAndContent(b.messages), stream |-> TRUE,
          tools |-> IF b.enableWebSearch THEN <<[type |-> "web_search_preview"]>> ELSE <<>>]
    ELSE [model |-> "gpt-4o", input |-> RoleAndContent(b.messages), stream |-> TRUE]

C6_CatchFramesGeneric(isError, msg) ==
    <<ErrorFrame([message |-> "Unknown error occurred"])>>

\* catch (error): one error frame, then close.
CatchFrames(isError, msg) ==
    <<ErrorFrame([message |-> IF isError THEN msg ELSE "Unknown error occurred"])>>

C1_SafetyNetWithoutDone(last) ==
    IF last # "response.completed"
    THEN <<EventFrame([type |-> "response.completed"])>>
    ELSE <<>>

C15_SafetyNetWritesAfterDone(last) ==
    IF last # "response.completed"
    THEN <<EventFrame([type |-> "response.completed"]), DoneFrame, TextFrame(<<"a">>)>>
    ELSE <<>>

C32_SafetyNetDoneOnly(last) ==
    IF last # "response.completed" THEN <<DoneFrame>> ELSE <<>>

\* The safety net after the loop.
SafetyNetFrames(last) ==
    IF last # "response.completed"
    THEN <<EventFrame([type |-> "response.completed"]), DoneFrame>>
    ELSE <<>>

\* ------------------------------------------------------------------ wire
\* emitEvent enqueues the bytes of `data: ${JSON.stringify(data)}\n\n`.
\* The bytes of one record are modelled by four pieces, so that a chunk
\* boundary can fall inside the marker "data: ", inside the JSON text, and
\* between the JSON text and the line feeds:
\*     "da" | "ta: " and the first part of the JSON text
\*          | the rest of the JSON text | "\n\n"
Encode(f) ==
    <<[b |-> "da"], [b |-> "ta: {", of |-> f], [b |-> "}", of |-> f], [b |-> "\n\n"]>>

\* The bytes these emitEvent calls enqueue.
RECURSIVE EncodeAll(_)
EncodeAll(frames) ==
    IF frames = <<>> THEN <<>> ELSE Encode(Head(frames)) \o EncodeAll(Tail(frames))

\* The stream position is the end of a record.
AtRecordEnd(pos) == pos % Len(Encode(DoneFrame)) = 0

\* text.split('\n'): "\n\n" ends the line and adds an empty one.
RECURSIVE SplitLines(_, _)
SplitLines(bytes, line) ==
    IF bytes = <<>> THEN <<line>>
    ELSE IF Head(bytes).b = "\n\n" THEN <<line, <<>>>> \o SplitLines(Tail(bytes), <<>>)
    ELSE SplitLines(Tail(bytes), Append(line, Head(bytes)))

\* line.startsWith('data: ')
StartsWithMarker(line) == Len(line) >= 2 /\ line[1].b = "da" /\ line[2].b = "ta: {"

\* line.slice(6): what follows the marker.
AfterMarker(line) == <<[b |-> "{", of |-> line[2].of]>> \o SubSeq(line, 3, Len(line))

IsSentinel(data) == Len(data) = 1 /\ data[1].b = "[DONE]"

\* JSON.parse: the whole text of a value parses to that value; a part of it
\* is a SyntaxError.
JsonParse(data) ==
    IF Len(data) = 2 /\ data[1].b = "{" /\ data[2].b = "}"
    THEN [ok |-> TRUE, value |-> data[2].of]
    ELSE [ok |-> FALSE]
SyntaxErrorMessage == "Unexpected end of JSON input"

\* ------------------------------------------------------------------ reader
\* The part of the client's state one record can change.
ReaderState ==
    [assistantMessage |-> assistantMessage, messages |-> messages,
     apiEvents |-> apiEvents, lastEventTime |-> lastEventTime,
     webSearchResults |-> webSearchResults, totalElapsedTime |-> totalElapsedTime,
     rx |-> rx, thrown |-> None]

\* prev.map(m => m.id === assistantMessage.id ? assistantMessage : m)
ReplaceById(msgs, am) == [i \in 1..Len(msgs) |-> IF msgs[i].id = am.id THEN am ELSE msgs[i]]

\* prev.filter(m => m.id !== assistantMessage.id)
RECURSIVE RemoveById(_, _)
RemoveById(msgs, id) ==
    IF msgs = <<>> THEN <<>>
    ELSE IF Head(msgs).id = id THEN RemoveById(Tail(msgs), id)
    ELSE <<Head(msgs)>> \o RemoveById(Tail(msgs), id)

C3_OnTextReplaces(rs, value) ==
    LET am == [rs.assistantMessage EXCEPT !.content = value]
    IN [rs EXCEPT !.assistantMessage = am, !.messages = ReplaceById(@, am)]

\* case 'text'
OnText(rs, value) ==
    LET am == [rs.assistantMessage EXCEPT !.content = @ \o value]
    IN [rs EXCEPT !.assistantMessage = am, !.messages = ReplaceById(@, am)]

C13_OnEventAccumulatesResults(rs, value, currentTime, start) ==
    [rs EXCEPT
       !.webSearchResults =
           IF value.type = "web_search.results" /\ "results" \in DOMAIN value
           THEN @ \o value.results ELSE @,
       !.apiEvents = Append(@, [type |-> value.type, timestamp |-> currentTime,
                                data |-> value,
                                elapsedSinceLastEvent |-> currentTime - rs.lastEventTime]),
       !.lastEventTime = currentTime,
       !.totalElapsedTime =
           IF value.type = "response.completed" THEN Some(currentTime - start) ELSE @]

C7_OnEventInsertsFirst(rs, value, currentTime, start) ==
    [rs EXCEPT
       !.apiEvents = <<[type |-> value.type, timestamp |-> currentTime, data |-> value,
                        elapsedSinceLastEvent |-> currentTime - rs.lastEventTime]>> \o @,
       !.lastEventTime = currentTime]

C10_OnEventCoalescesSameInstant(rs, value, currentTime, start) ==
    IF currentTime = rs.lastEventTime THEN rs
    ELSE [rs EXCEPT
            !.apiEvents = Append(@, [type |-> value.type, timestamp |-> currentTime,
                                     data |-> value,
                                     elapsedSinceLastEvent |-> currentTime - rs.lastEventTime]),
            !.lastEventTime = currentTime]

C22_OnEventRewritesLast(rs, value, currentTime, start) ==
    [rs EXCEPT
       !.webSearchResults =
           IF value.type = "web_search.results" /\ "results" \in DOMAIN value
           THEN value.results ELSE @,
       !.apiEvents = SubSeq(@, 1, Len(@) - 1)
                     \o <<[type |-> value.type, timestamp |-> currentTime, data |-> value,
                           elapsedSinceLastEvent |-> currentTime - rs.lastEventTime]>>,
       !.lastEventTime = currentTime,
       !.totalElapsedTime =
           IF value.type = "response.completed" THEN Some(currentTime - start) ELSE @]

C31_OnEventTimesEveryEvent(rs, value, currentTime, start) ==
    [rs EXCEPT
       !.webSearchResults =
           IF value.type = "web_search.results" /\ "results" \in DOMAIN value
           THEN value.results ELSE @,
       !.apiEvents = Append(@, [type |-> value.type, timestamp |-> currentTime,
                                data |-> value,
                                elapsedSinceLastEvent |-> currentTime - rs.lastEventTime]),
       !.lastEventTime = currentTime,
       !.totalElapsedTime = Some(currentTime - start)]

\* case 'event'
OnEvent(rs, value, currentTime, start) ==
    LET eventWithTiming ==
            [type |-> value.type, timestamp |-> currentTime, data |-> value,
             elapsedSinceLastEvent |-> currentTime - rs.lastEventTime]
    IN [rs EXCEPT
          !.webSearchResults =
              IF value.type = "web_search.results" /\ "results" \in DOMAIN value
              THEN value.results ELSE @,
          !.apiEvents = Append(@, eventWithTiming),
          !.lastEventTime = currentTime,
          !.totalElapsedTime =
              IF value.type = "response.completed" THEN Some(currentTime - start) ELSE @]

C8_DispatchTextMovesBaseline(rs, parsed, currentTime, start) ==
    CASE parsed.type = "text" ->
             [OnText(rs, parsed.value) EXCEPT !.lastEventTime = currentTime]
      [] parsed.type = "event" -> OnEvent(rs, parsed.value, currentTime, start)
      [] parsed.type = "error" -> [rs EXCEPT !.thrown = Some(parsed.value.message)]
      [] OTHER -> rs

\* switch (parsed.type)
Dispatch(rs, parsed, currentTime, start) ==
    CASE parsed.type = "text" -> OnText(rs, parsed.value)
      [] parsed.type = "event" -> OnEvent(rs, parsed.value, currentTime, start)
      [] parsed.type = "error" -> [rs EXCEPT !.thrown = Some(parsed.value.message)]
      [] OTHER -> rs

C26_ProcessLineSkipsBadRecord(rs, line, currentTime, start) ==
    IF Len(line) = 0 \/ ~StartsWithMarker(line) THEN rs
    ELSE LET data == AfterMarker(line)
             p == JsonParse(data)
         IN IF IsSentinel(data) \/ ~p.ok THEN rs
            ELSE Dispatch([rs EXCEPT !.rx = Append(@, p.value)], p.value, currentTime, start)

\* The body of `for (const line of lines)` for one line.
ProcessLine(rs, line, currentTime, start) ==
    IF Len(line) = 0 \/ ~StartsWithMarker(line) THEN rs
    ELSE LET data == AfterMarker(line)
             p == JsonParse(data)
         IN IF IsSentinel(data) THEN rs
            ELSE IF ~p.ok THEN [rs EXCEPT !.thrown = Some(SyntaxErrorMessage)]
            ELSE Dispatch([rs EXCEPT !.rx = Append(@, p.value)], p.value, currentTime, start)

\* The for loop over the lines of one chunk; a throw leaves the loop.
RECURSIVE ProcessLines(_, _, _, _)
ProcessLines(rs, lines, currentTime, start) ==
    IF Len(lines) = 0 \/ rs.thrown # None THEN rs
    ELSE ProcessLines(ProcessLine(rs, Head(lines), currentTime, start),
                      Tail(lines), currentTime, start)

\* ------------------------------------------------------------------ clock
\* Date.now(): the clock never runs backwards; between two readings it has
\* advanced or not.
Readings(t) == {t} \cup (IF t < MaxTime THEN {t + 1} ELSE {})

\* ------------------------------------------------------------------ Init
Inputs == {<<"q">>}

\* An invocation of the route that has not started.
NoInvocation ==
    [pc |-> "none", upstream |-> <<>>, currentMessage |-> <<>>, lastEventType |-> "",
     webSearchResults |-> <<>>, out |-> <<>>, raised |-> None]

\* The state after the page has loaded, the route being served by r.
InitState(r) ==
    /\ now = 0
    /\ adapterPc = "none"
    /\ upstream = <<>>
    /\ currentMessage = <<>>
    /\ lastEventType = ""
    /\ adapterSearchResults = <<>>
    /\ out = <<>>
    /\ wire = <<>>
    /\ http = "none"
    /\ apiEvents = <<>>
    /\ messages = <<>>
    /\ isLoading = FALSE
    /\ error = None
    /\ totalElapsedTime = None
    /\ webSearchResults = <<>>
    /\ clientPc = "idle"
    /\ startTime = 0
    /\ assistantMessage = [id |-> 0, role |-> "assistant", content |-> <<>>]
    /\ lastEventTime = 0
    /\ rd = 0
    /\ rx = <<>>
    /\ raised = None
    /\ turns = 0
    /\ delivered = 0
    /\ cuts = 0
    /\ pending = None
    /\ route = r
    /\ enableWebSearch = FALSE
    /\ body = [messages |-> <<>>, enableWebSearch |-> FALSE]
    /\ sessions = <<>>
    /\ cancelled = FALSE
    /\ unnoticed = 0
    /\ other = NoInvocation
    /\ refused = 0

\* The whole pipeline is explored with the handler that has every case.
Init == InitState("part_000")

\* Either source file of the handler serves the route.
InitAnyRoute == \E r \in Routes : InitState(r)

\* ------------------------------------------------------------------ client
\* !input.trim()
Blank(input) == \A i \in 1..Len(input) : input[i] = " "

C16_RefusesOnlyBlank(input) == Blank(input)

\* if (!input.trim() || isLoading) return;
RefusesSubmission(input) == Blank(input) \/ isLoading

\* A submit event that handleSubmit returns from at its guard.
SubmitRefused(input) ==
    /\ RefusesSubmission(input)
    /\ refused < MaxRefused
    /\ refused' = refused + 1
    /\ UNCHANGED <<now, adapterVars, http, reactVars, localVars, history, requestVars,
                   cancelled, unnoticed, other>>

\* onChange of the web-search checkbox.
ToggleWebSearch ==
    /\ enableWebSearch' = ~enableWebSearch
    /\ UNCHANGED <<now, adapterVars, http, reactVars, localVars, history,
                   route, body, sessions, envVars>>

C37_SubmitKeepsTheBanner(input, t1, t2, t3) ==
    /\ ~RefusesSubmission(input)
    /\ turns < MaxTurns
    /\ t1 \in Readings(now) /\ t2 \in Readings(t1) /\ t3 \in Readings(t2)
    /\ LET userMessage == [id |-> t2, role |-> "user", content |-> input]
           am == [id |-> t3 + 1, role |-> "assistant", content |-> <<>>]
       IN /\ messages' = messages \o <<userMessage, am>>
          /\ assistantMessage' = am
          /\ body' = [messages |-> RoleAndContent(messages \o <<userMessage>>),
                      enableWebSearch |-> enableWebSearch]
    /\ now' = t3
    /\ isLoading' = TRUE
    /\ error' = error
    /\ totalElapsedTime' = None
    /\ webSearchResults' = <<>>
    /\ startTime' = t1
    /\ apiEvents' = <<[type |-> "request", timestamp |-> t1]>>
    /\ clientPc' = "fetching"
    /\ http' = "sent"
    /\ turns' = turns + 1
    /\ rx' = <<>>
    /\ raised' = None
    /\ rd' = 0
    \* a fresh invocation of the route serves the request
    /\ adapterPc' = "none"
    /\ upstream' = <<>>
    /\ pending' = None
    /\ currentMessage' = <<>>
    /\ lastEventType' = ""
    /\ adapterSearchResults' = <<>>
    /\ out' = <<>>
    /\ wire' = <<>>
    /\ sessions' = <<>>
    /\ cancelled' = FALSE
    /\ unnoticed' = 0
    /\ UNCHANGED <<lastEventTime, delivered, cuts, route, enableWebSearch, other, refused>>

C38_SubmitSendsThePlaceholder(input, t1, t2, t3) ==
    /\ ~RefusesSubmission(input)
    /\ turns < MaxTurns
    /\ t1 \in Readings(now) /\ t2 \in Readings(t1) /\ t3 \in Readings(t2)
    /\ LET userMessage == [id |-> t2, role |-> "user", content |-> input]
           am == [id |-> t3 + 1, role |-> "assistant", content |-> <<>>]
       IN /\ messages' = messages \o <<userMessage, am>>
          /\ assistantMessage' = am
          /\ body' = [messages |-> RoleAndContent(messages \o <<userMessage, am>>),
                      enableWebSearch |-> enableWebSearch]
    /\ now' = t3
    /\ isLoading' = TRUE
    /\ error' = None
    /\ totalElapsedTime' = None
    /\ webSearchResults' = <<>>
    /\ startTime' = t1
    /\ apiEvents' = <<[type |-> "request", timestamp |-> t1]>>
    /\ clientPc' = "fetching"
    /\ http' = "sent"
    /\ turns' = turns + 1
    /\ rx' = <<>>
    /\ raised' = None
    /\ rd' = 0
    \* a fresh invocation of the route serves the request
    /\ adapterPc' = "none"
    /\ upstream' = <<>>
    /\ pending' = None
    /\ currentMessage' = <<>>
    /\ lastEventType' = ""
    /\ adapterSearchResults' = <<>>
    /\ out' = <<>>
    /\ wire' = <<>>
    /\ sessions' = <<>>
    /\ cancelled' = FALSE
    /\ unnoticed' = 0
    /\ UNCHANGED <<lastEventTime, delivered, cuts, route, enableWebSearch, other, refused>>

\* handleSubmit up to the fetch call.
Submit(input, t1, t2, t3) ==
    /\ ~RefusesSubmission(input)
    /\ turns < MaxTurns
    /\ t1 \in Readings(now) /\ t2 \in Readings(t1) /\ t3 \in Readings(t2)
    /\ LET userMessage == [id |-> t2, role |-> "user", content |-> input]
           am == [id |-> t3 + 1, role |-> "assistant", content |-> <<>>]
       IN /\ messages' = messages \o <<userMessage, am>>
          /\ assistantMessage' = am
          /\ body' = [messages |-> RoleAndContent(messages \o <<userMessage>>),
                      enableWebSearch |-> enableWebSearch]
    /\ now' = t3
    /\ isLoading' = TRUE
    /\ error' = None
    /\ totalElapsedTime' = None
    /\ webSearchResults' = <<>>
    /\ startTime' = t1
    /\ apiEvents' = <<[type |-> "request", timestamp |-> t1]>>
    /\ clientPc' = "fetching"
    /\ http' = "sent"
    /\ turns' = turns + 1
    /\ rx' = <<>>
    /\ raised' = None
    /\ rd' = 0
    \* a fresh invocation of the route serves the request
    /\ adapterPc' = "none"
    /\ upstream' = <<>>
    /\ pending' = None
    /\ currentMessage' = <<>>
    /\ lastEventType' = ""
    /\ adapterSearchResults' = <<>>
    /\ out' = <<>>
    /\ wire' = <<>>
    /\ sessions' = <<>>
    /\ cancelled' = FALSE
    /\ unnoticed' = 0
    /\ UNCHANGED <<lastEventTime, delivered, cuts, route, enableWebSearch, other, refused>>

C20_CatchKeepsPlaceholder(message) ==
    /\ error' = Some(message)
    /\ messages' = messages
    /\ isLoading' = FALSE
    /\ clientPc' = "idle"

\* catch (err) and finally of handleSubmit.
Catch(message) ==
    /\ error' = Some(message)
    /\ messages' = RemoveById(messages, assistantMessage.id)
    /\ isLoading' = FALSE
    /\ clientPc' = "idle"

\* fetch rejects.
FetchRejects ==
    /\ clientPc = "fetching"
    /\ Catch("Failed to fetch")
    /\ UNCHANGED <<now, adapterVars, http, apiEvents, totalElapsedTime, webSearchResults,
                   startTime, assistantMessage, lastEventTime, rd, rx, raised, turns, delivered, cuts,
                   requestVars, envVars>>

\* if (!response.ok) throw new Error('Failed to send message')
FetchNotOk ==
    /\ clientPc = "fetching"
    /\ http = "fail"
    /\ Catch("Failed to send message")
    /\ UNCHANGED <<now, adapterVars, http, apiEvents, totalElapsedTime, webSearchResults,
                   startTime, assistantMessage, lastEventTime, rd, rx, raised, turns, delivered, cuts,
                   requestVars, envVars>>

\* if (!reader) throw new Error('No response stream available')
FetchNoBody ==
    /\ clientPc = "fetching"
    /\ http = "ok"
    /\ Catch("No response stream available")
    /\ UNCHANGED <<now, adapterVars, http, apiEvents, totalElapsedTime, webSearchResults,
                   startTime, assistantMessage, lastEventTime, rd, rx, raised, turns, delivered, cuts,
                   requestVars, envVars>>

\* The response is ok and has a body: the read loop starts.
FetchOk ==
    /\ clientPc = "fetching"
    /\ http = "ok"
    /\ clientPc' = "reading"
    /\ lastEventTime' = startTime
    /\ UNCHANGED <<now, adapterVars, http, reactVars, startTime, assistantMessage, rd, rx, raised, turns, delivered, cuts,
                   requestVars, envVars>>

\* One reader.read() that returns a chunk of k bytes, and the for loop over
\* its lines.  The loop reads the clock once per record; the records of one
\* chunk get one reading here, and chunks of one record give every other case.
ReadChunk(k, t) ==
    /\ clientPc = "reading"
    /\ k \in 1..(Len(wire) - rd)
    /\ t \in Readings(now)
    /\ cuts' = IF AtRecordEnd(rd + k) THEN cuts ELSE cuts + 1
    /\ cuts' <= MaxCuts
    /\ UNCHANGED raised
    /\ LET chunk == SubSeq(wire, rd + 1, rd + k)
           rs == ProcessLines(ReaderState, SplitLines(chunk, <<>>), t, startTime)
       IN /\ apiEvents' = rs.apiEvents
          /\ webSearchResults' = rs.webSearchResults
          /\ totalElapsedTime' = rs.totalElapsedTime
          /\ lastEventTime' = rs.lastEventTime
          /\ assistantMessage' = rs.assistantMessage
          /\ rx' = rs.rx
          /\ IF rs.thrown # None
             THEN /\ error' = Some(rs.thrown[1])
                  /\ messages' = RemoveById(rs.messages, rs.assistantMessage.id)
                  /\ isLoading' = FALSE
                  /\ clientPc' = "idle"
             ELSE /\ messages' = rs.messages
                  /\ UNCHANGED <<error, isLoading, clientPc>>
    /\ rd' = rd + k
    /\ now' = t
    /\ UNCHANGED <<adapterVars, http, startTime, turns, delivered, requestVars, envVars>>

C35_ReadEndKeepsLoading ==
    /\ clientPc = "reading"
    /\ adapterPc = "closed"
    /\ rd = Len(wire)
    /\ clientPc' = "idle"
    /\ UNCHANGED <<now, adapterVars, http, reactVars, startTime, assistantMessage,
                   lastEventTime, rd, history, requestVars, envVars>>

C36_ReadEndRequiresDone ==
    /\ clientPc = "reading"
    /\ adapterPc = "closed"
    /\ rd = Len(wire)
    /\ IF \E i \in 1..Len(rx) : rx[i].type = "done"
       THEN /\ isLoading' = FALSE
            /\ clientPc' = "idle"
            /\ UNCHANGED <<error, messages>>
       ELSE Catch("Stream ended unexpectedly")
    /\ UNCHANGED <<now, adapterVars, http, apiEvents, totalElapsedTime,
                   webSearchResults, startTime, assistantMessage, lastEventTime, rd, rx,
                   raised, turns, delivered, cuts, requestVars, envVars>>

\* reader.read() returns done: the loop ends, then finally.
ReadEnd ==
    /\ clientPc = "reading"
    /\ adapterPc = "closed"
    /\ rd = Len(wire)
    /\ isLoading' = FALSE
    /\ clientPc' = "idle"
    /\ UNCHANGED <<now, adapterVars, http, apiEvents, messages, error, totalElapsedTime,
                   webSearchResults, startTime, assistantMessage, lastEventTime, rd, rx, raised, turns, delivered, cuts,
                   requestVars, envVars>>

\* ------------------------------------------------------------------ adapter
\* openai.responses.create resolves: the stream is built, start() runs up
\* to the first await of the iterator, and the response is returned.
ServerAccept ==
    /\ http = "sent"
    /\ http' = "ok"
    /\ adapterPc' = "iterating"
    /\ sessions' = Append(sessions, CreateArgs(route, body))
    /\ UNCHANGED <<now, upstream, pending, currentMessage, lastEventType,
                   adapterSearchResults, out, wire, reactVars, localVars, rx, raised, turns, delivered, cuts,
                   route, enableWebSearch, body, envVars>>

\* openai.responses.create rejects: POST throws, the framework answers 500.
ServerReject ==
    /\ http = "sent"
    /\ http' = "fail"
    /\ sessions' = Append(sessions, CreateArgs(route, body))
    /\ UNCHANGED <<now, adapterVars, reactVars, localVars, rx, raised, turns, delivered, cuts,
                   route, enableWebSearch, body, envVars>>

\* The frames one resumption of start() emits: those of the loop body (with
\* the catch block's when the body throws), of the safety net after the
\* loop, or of the catch block.
Emitted(p, h, last) ==
    CASE p.kind = "event" /\ p.event.type = "" -> <<>>
      [] p.kind = "event" /\ h.ctl = "throw" -> CatchFrames(TRUE, h.msg)
      [] p.kind = "event" -> h.frames
      [] p.kind = "end" -> SafetyNetFrames(last)
      [] p.kind = "throw" -> CatchFrames(p.thrown.isError, p.thrown.message)

C2_PcAfterLeavesOpen(p, h) ==
    IF p.kind = "end" \/ (p.kind = "event" /\ (p.event.type = "" \/ h.ctl = "continue"))
    THEN "iterating" ELSE "closed"

C23_PcAfterReadsOnAfterCompleted(p, h) ==
    IF p.kind = "event" /\ (\/ p.event.type \in {"", "response.completed"}
                            \/ h.ctl = "continue")
    THEN "iterating" ELSE "closed"

\* Where start() is after the resumption: awaiting the iterator again, or
\* past controller.close().
PcAfter(p, h) ==
    IF p.kind = "event" /\ (p.event.type = "" \/ h.ctl = "continue")
    THEN "iterating" ELSE "closed"

\* controller.enqueue and controller.close throw once the client has closed
\* the connection (the stream is cancelled); the catch block's emitEvent
\* throws again and start() rejects.  Leaving the for await loop while the
\* session is live abandons it; after its end or its throw there is none left.
PcWhenGone(p) == IF p.kind = "event" THEN "abandoned" ELSE "drained"

\* start() resumes with what the awaited iterator delivered (an event, the
\* end of the session, or a throw) and runs to its next await or to its end.
Resume(p) ==
    /\ pending' = None
    /\ LET h == IF p.kind = "event"
                THEN Handle(route, p.event, currentMessage, adapterSearchResults, ServerNow)
                ELSE [frames |-> <<>>, cm |-> currentMessage, wsr |-> adapterSearchResults,
                      ctl |-> p.kind, msg |-> ""]
           emitted == Emitted(p, h, lastEventType)
       IN /\ out' = IF cancelled THEN out ELSE out \o emitted
          /\ wire' = IF cancelled THEN wire ELSE wire \o EncodeAll(emitted)
          /\ adapterPc' = IF cancelled /\ (Len(emitted) > 0 \/ PcAfter(p, h) = "closed")
                          THEN PcWhenGone(p)
                          ELSE PcAfter(p, h)
          /\ IF p.kind = "event"
             THEN /\ upstream' = Append(upstream, p.event)
                  /\ IF p.event.type = ""
                     THEN UNCHANGED <<currentMessage, lastEventType, adapterSearchResults>>
                     ELSE /\ lastEventType' = p.event.type
                          /\ currentMessage' = h.cm
                          /\ adapterSearchResults' = h.wsr
             ELSE UNCHANGED <<upstream, currentMessage, lastEventType, adapterSearchResults>>
    /\ raised' = IF p.kind = "throw" THEN Some(p.thrown) ELSE raised
    /\ unnoticed' = IF cancelled /\ p.kind = "event" /\ adapterPc' = "iterating"
                    THEN unnoticed + 1 ELSE unnoticed
    /\ UNCHANGED <<now, http, reactVars, localVars, rx, turns, cuts, requestVars,
                   cancelled, other, refused>>

AnEvent(e) == [kind |-> "event", event |-> e]
TheEnd == [kind |-> "end"]
AThrow(x) == [kind |-> "throw", thrown |-> x]

\* The upstream session delivers: the awaited iterator settles.
Deliver(p) ==
    /\ adapterPc = "iterating"
    /\ pending = None
    /\ pending' = Some(p)
    /\ UNCHANGED <<now, adapterPc, upstream, currentMessage, lastEventType,
                   adapterSearchResults, out, wire, http, reactVars, localVars, rx, raised,
                   turns, cuts, requestVars, envVars>>

DeliverEvent(e) ==
    /\ delivered < MaxUpstream
    /\ delivered' = delivered + 1
    /\ Deliver(AnEvent(e))

DeliverEnd == Deliver(TheEnd) /\ UNCHANGED delivered

DeliverThrow(x) == Deliver(AThrow(x)) /\ UNCHANGED delivered

\* The continuation of start() runs.
AdapterResume ==
    /\ adapterPc = "iterating"
    /\ pending # None
    /\ Resume(pending[1])
    /\ UNCHANGED delivered

\* The same, with the delivery and the continuation taken as one step.
UpstreamEvent(e) ==
    /\ adapterPc = "iterating"
    /\ pending = None
    /\ delivered < MaxUpstream
    /\ delivered' = delivered + 1
    /\ Resume(AnEvent(e))

UpstreamExhausted ==
    /\ adapterPc = "iterating"
    /\ pending = None
    /\ Resume(TheEnd)
    /\ UNCHANGED delivered

UpstreamThrows(x) ==
    /\ adapterPc = "iterating"
    /\ pending = None
    /\ Resume(AThrow(x))
    /\ UNCHANGED delivered

\* The user navigates away while the response is streaming: the page is
\* gone and the connection closes.  The ReadableStream has start() only, so
\* nothing runs in the adapter at that moment.
ClientCloses ==
    /\ clientPc = "reading"
    /\ adapterPc = "iterating"
    /\ ~cancelled
    /\ cancelled' = TRUE
    /\ clientPc' = "gone"
    /\ UNCHANGED <<now, adapterVars, http, reactVars, startTime, assistantMessage,
                   lastEventTime, rd, history, requestVars, unnoticed, other, refused>>

C17_SeenByReadsPeer(own, peer) == peer

\* let currentMessage, lastEventType, webSearchResults are declared inside
\* start(): an invocation reads its own, whatever its peer holds.
SeenBy(own, peer) == own

\* The other invocation after its start() resumes with p.
OtherStep(p) ==
    LET cm == SeenBy(other.currentMessage, currentMessage)
        wsr == SeenBy(other.webSearchResults, adapterSearchResults)
        last == SeenBy(other.lastEventType, lastEventType)
        h == IF p.kind = "event"
             THEN Handle(route, p.event, cm, wsr, ServerNow)
             ELSE [frames |-> <<>>, cm |-> cm, wsr |-> wsr, ctl |-> p.kind, msg |-> ""]
        typed == p.kind = "event" /\ p.event.type # ""
    IN [pc |-> PcAfter(p, h),
        upstream |-> IF p.kind = "event" THEN Append(other.upstream, p.event)
                     ELSE other.upstream,
        currentMessage |-> IF typed THEN h.cm ELSE cm,
        lastEventType |-> IF typed THEN p.event.type ELSE last,
        webSearchResults |-> IF typed THEN h.wsr ELSE wsr,
        out |-> other.out \o Emitted(p, h, last),
        raised |-> IF p.kind = "throw" THEN Some(p.thrown) ELSE other.raised]

\* Another browser's request reaches the route.
OtherAccept ==
    /\ other.pc = "none"
    /\ other' = [other EXCEPT !.pc = "iterating"]
    /\ UNCHANGED <<now, adapterVars, http, reactVars, localVars, history, requestVars,
                   cancelled, unnoticed, refused>>

OtherEvent(e) ==
    /\ other.pc = "iterating"
    /\ delivered < MaxUpstream
    /\ delivered' = delivered + 1
    /\ other' = OtherStep(AnEvent(e))
    /\ UNCHANGED <<now, adapterVars, http, reactVars, localVars, rx, raised, turns, cuts,
                   requestVars, cancelled, unnoticed, refused>>

OtherExhausted ==
    /\ other.pc = "iterating"
    /\ other' = OtherStep(TheEnd)
    /\ UNCHANGED <<now, adapterVars, http, reactVars, localVars, history, requestVars,
                   cancelled, unnoticed, refused>>

OtherThrows(x) ==
    /\ other.pc = "iterating"
    /\ other' = OtherStep(AThrow(x))
    /\ UNCHANGED <<now, adapterVars, http, reactVars, localVars, history, requestVars,
                   cancelled, unnoticed, refused>>

\* ------------------------------------------------------------------ Spec
\* The whole pipeline.  Its upstream sessions are drawn from CoreEvents, and
\* each delivery is taken together with the continuation it resumes: nothing
\* the client does depends on what is pending in the adapter.
Next ==
    \/ \E input \in Inputs, t1 \in Readings(now) :
          \E t2 \in Readings(t1) : \E t3 \in Readings(t2) : Submit(input, t1, t2, t3)
    \/ FetchRejects
    \/ FetchNotOk
    \/ FetchNoBody
    \/ FetchOk
    \/ \E k \in 1..(Len(wire) - rd), t \in Readings(now) : ReadChunk(k, t)
    \/ ReadEnd
    \/ ServerAccept
    \/ ServerReject
    \/ \E e \in CoreEvents : UpstreamEvent(e)
    \/ UpstreamExhausted
    \/ \E x \in CoreThrown : UpstreamThrows(x)

Spec == Init /\ [][Next]_vars

\* The steps of a request that is in flight, its upstream session being
\* at most one content delta, ended by exhaustion or by a throw.
RequestStep ==
    \/ FetchRejects
    \/ FetchNotOk
    \/ FetchNoBody
    \/ FetchOk
    \/ \E k \in 1..(Len(wire) - rd), t \in Readings(now) : ReadChunk(k, t)
    \/ ReadEnd
    \/ ServerAccept
    \/ ServerReject
    \/ upstream = <<>>
       /\ UpstreamEvent([type |-> "response.output_text.delta", delta |-> <<"a">>])
    \/ UpstreamExhausted
    \/ \E x \in CoreThrown : UpstreamThrows(x)

\* The client and the requests it makes, on these sessions.
NextLoading ==
    \/ \E input \in Inputs, t1 \in Readings(now) :
          \E t2 \in Readings(t1) : \E t3 \in Readings(t2) : Submit(input, t1, t2, t3)
    \/ RequestStep

SpecLoading == Init /\ [][NextLoading]_vars

\* The fetch and every read of the stream return: a request in flight is
\* not left waiting for ever.
SpecLoadingFair == SpecLoading /\ WF_vars(RequestStep)

\* The adapter alone, serving a request whose client has not read yet; its
\* upstream sessions are drawn from the whole vocabulary, and the delivery
\* of the iterator and the continuation of start() are separate steps.
NextAdapter ==
    \/ \E input \in Inputs, t1 \in Readings(now) :
          \E t2 \in Readings(t1) : \E t3 \in Readings(t2) : Submit(input, t1, t2, t3)
    \/ ServerAccept
    \/ \E e \in UpstreamEvents : DeliverEvent(e)
    \/ DeliverEnd
    \/ \E x \in Thrown : DeliverThrow(x)
    \/ AdapterResume

SpecAdapter == InitAnyRoute /\ [][NextAdapter]_vars

\* The continuation of an await runs once the awaited promise has settled.
SpecAdapterFair == SpecAdapter /\ WF_vars(AdapterResume)

\* The client up to the response, and the call that opens the upstream
\* session: the checkbox is toggled between submissions or during them.
NextSession ==
    \/ \E input \in Inputs, t1 \in Readings(now) :
          \E t2 \in Readings(t1) : \E t3 \in Readings(t2) : Submit(input, t1, t2, t3)
    \/ ToggleWebSearch
    \/ ServerAccept
    \/ ServerReject
    \/ FetchRejects
    \/ FetchNotOk
    \/ FetchNoBody

SpecSession == InitAnyRoute /\ [][NextSession]_vars

\* The client with the submit events its guard refuses: a submit while a
\* request is in flight, or with a blank input.  The upstream sessions are
\* drawn from the content deltas.
NextSubmit ==
    \/ \E input \in Inputs, t1 \in Readings(now) :
          \E t2 \in Readings(t1) : \E t3 \in Readings(t2) : Submit(input, t1, t2, t3)
    \/ \E input \in Inputs \cup {<<>>, <<" ">>} : SubmitRefused(input)
    \/ FetchRejects
    \/ FetchNotOk
    \/ FetchNoBody
    \/ FetchOk
    \/ \E k \in 1..(Len(wire) - rd), t \in Readings(now) : ReadChunk(k, t)
    \/ ReadEnd
    \/ ServerAccept
    \/ ServerReject
    \/ \E e \in {x \in CoreEvents : x.type = "response.output_text.delta"} : UpstreamEvent(e)
    \/ UpstreamExhausted

SpecSubmit == Init /\ [][NextSubmit]_vars

\* The adapter of a request whose client may close the connection while
\* the response streams.
NextCancel ==
    \/ \E input \in Inputs, t1 \in Readings(now) :
          \E t2 \in Readings(t1) : \E t3 \in Readings(t2) : Submit(input, t1, t2, t3)
    \/ ServerAccept
    \/ FetchOk
    \/ ClientCloses
    \/ \E e \in UpstreamEvents : UpstreamEvent(e)
    \/ UpstreamExhausted
    \/ \E x \in Thrown : UpstreamThrows(x)

SpecCancel == InitAnyRoute /\ [][NextCancel]_vars

\* The upstream events that read or write the accumulators of start().
AccumulatorEvents ==
    {e \in UpstreamEvents :
        \/ e.type \in {"response.output_text.done", "response.web_search_call.completed",
                        "response.completed"}
        \/ e.type = "response.output_text.delta" /\ Len(e.delta) > 0
        \/ e.type = "response.web_search_call.results" /\ "results" \in DOMAIN e
                                                      /\ Len(e.results) = 2}

\* Two invocations of the route run concurrently, their steps interleaved.
NextConcurrent ==
    \/ \E input \in Inputs, t1 \in Readings(now) :
          \E t2 \in Readings(t1) : \E t3 \in Readings(t2) : Submit(input, t1, t2, t3)
    \/ ServerAccept
    \/ \E e \in AccumulatorEvents : UpstreamEvent(e)
    \/ UpstreamExhausted
    \/ \E x \in CoreThrown : UpstreamThrows(x)
    \/ OtherAccept
    \/ \E e \in AccumulatorEvents : OtherEvent(e)
    \/ OtherExhausted
    \/ \E x \in CoreThrown : OtherThrows(x)

SpecConcurrent == InitAnyRoute /\ [][NextConcurrent]_vars

\* ------------------------------------------------------------------ claims
Last(seq) == seq[Len(seq)]
Terminals(frames) == {i \in 1..Len(frames) : IsTerminal(frames[i])}

\* C1: when the adapter has closed the stream, the frames it wrote contain
\* exactly one terminal frame ('done' or 'error') and it is the last one;
\* while the stream is open no terminal frame has been written.  This holds
\* however the session ended: response.completed, response.failed,
\* response.incomplete, exhaustion, or a throw.
C1_OneTerminalFrameLast ==
    /\ adapterPc = "closed" => Terminals(out) = {Len(out)} /\ Len(out) > 0
    /\ adapterPc # "closed" => Terminals(out) = {}
    /\ wire = EncodeAll(out)

C1_Witness ==
    /\ adapterPc = "closed"
    /\ Len(upstream) = 2
    /\ upstream[1].type = "response.output_text.delta"
    /\ upstream[2].type = "response.failed"
    /\ Len(out) = 2
    /\ Last(out).type = "error"

\* C2: once the upstream iteration has stopped (the iterator has delivered a
\* terminal event, its end, or a throw), the adapter eventually has written
\* a terminal frame as the last frame and closed the stream.
UpstreamStopped ==
    /\ adapterPc = "iterating"
    /\ pending # None
    /\ \/ pending[1].kind \in {"end", "throw"}
       \/ /\ pending[1].kind = "event"
          /\ pending[1].event.type \in
                {"response.completed", "response.failed", "response.incomplete"}
ClosedWithTerminal == adapterPc = "closed" /\ Len(out) > 0 /\ IsTerminal(Last(out))

C2_StoppedLeadsToClosed == UpstreamStopped ~> ClosedWithTerminal

C2_Witness ==
    /\ ClosedWithTerminal
    /\ lastEventType = "response.created"
    /\ Last(out).type = "done"

\* The client has left the request: finally has run.
RequestEnded == turns > 0 /\ clientPc = "idle"

\* The errors of a request whose response never became a readable stream.
TransportErrors ==
    {Some("Failed to fetch"), Some("Failed to send message"),
     Some("No response stream available")}

\* The concatenation of the values of the 'text' frames among these frames.
RECURSIVE TextOf(_)
TextOf(frames) ==
    IF Len(frames) = 0 THEN <<>>
    ELSE (IF Head(frames).type = "text" THEN Head(frames).value ELSE <<>>)
         \o TextOf(Tail(frames))

\* The concatenation of the fragments of the content-delta events among
\* these upstream events.
RECURSIVE DeltasOf(_)
DeltasOf(events) ==
    IF Len(events) = 0 THEN <<>>
    ELSE (IF Head(events).type = "response.output_text.delta"
          THEN Head(events).delta ELSE <<>>)
         \o DeltasOf(Tail(events))

\* The assistant message of the request in flight, as the conversation shows it.
InProgress == [id |-> assistantMessage.id, role |-> "assistant", content |-> TextOf(rx)]

\* C3: when a request has ended without error, the conversation ends with
\* the assistant message of that request and its content is the
\* concatenation, in arrival order, of the values of the 'text' frames the
\* reader received (decoded from the stream) in that request; it is empty
\* when there were none.
C3_ContentIsConcatenationOfTextFrames ==
    (RequestEnded /\ error = None) =>
        /\ Len(messages) >= 2
        /\ Last(messages) = InProgress

C3_Witness ==
    /\ RequestEnded
    /\ error = None
    /\ Len(rx) = 4
    /\ Last(messages).content = <<"a", "b">>

\* C4: end to end, when the upstream session has ended with
\* response.completed and the request has ended (its response was a
\* readable stream), the conversation ends with the assistant message of
\* the request and its content is the concatenation of the fragments of the
\* content-delta events of the session.
C4_EndToEndContentIsConcatenationOfDeltas ==
    (/\ RequestEnded
     /\ error \notin TransportErrors
     /\ adapterPc = "closed"
     /\ lastEventType = "response.completed") =>
        /\ Len(messages) >= 2
        /\ Last(messages).id = assistantMessage.id
        /\ Last(messages).content = DeltasOf(upstream)

\* C5: when the upstream has emitted response.failed or response.incomplete
\* and the request has ended, the conversation holds no message with the id
\* of that request's assistant message.
C5_NoAssistantMessageAfterUpstreamFailure ==
    (/\ RequestEnded
     /\ lastEventType \in {"response.failed", "response.incomplete"}) =>
        \A i \in 1..Len(messages) : messages[i].id # assistantMessage.id

FramesOfType(frames, type) == {i \in 1..Len(frames) : frames[i].type = type}

\* The message of the failure raised while iterating: that of the thrown
\* Error, or the upstream's error message of the response.failed event.
FailureRaised == raised # None \/ lastEventType = "response.failed"
FailureMessage ==
    IF raised # None
    THEN (IF raised[1].isError THEN raised[1].message ELSE "Unknown error occurred")
    ELSE LET e == Last(upstream)
         IN IF "error" \in DOMAIN e /\ "message" \in DOMAIN e.error
            THEN e.error.message ELSE "Response failed"

TypesOf(log) == [i \in 1..Len(log) |-> log[i].type]
RECURSIVE EventsOf(_)
EventsOf(frames) ==
    IF Len(frames) = 0 THEN <<>>
    ELSE (IF Head(frames).type = "event" THEN <<Head(frames).value>> ELSE <<>>)
         \o EventsOf(Tail(frames))

\* C7 as stated: at every point the event log has one entry per 'event'
\* frame received so far, in the order received.
C7_LogIsTheEventFrames ==
    /\ Len(apiEvents) = Len(EventsOf(rx))
    /\ TypesOf(apiEvents) = TypesOf(EventsOf(rx))

\* C7 amended: at every point of a request the event log is the 'request'
\* entry written at submission followed by one entry per 'event' frame
\* received so far, in the order received, each holding that frame's payload.
C7_LogIsRequestThenTheEventFrames ==
    /\ turns = 0 => apiEvents = <<>>
    /\ turns > 0 =>
          /\ Len(apiEvents) = 1 + Len(EventsOf(rx))
          /\ apiEvents[1].type = "request"
          /\ \A i \in 1..Len(EventsOf(rx)) :
                /\ apiEvents[i + 1].type = EventsOf(rx)[i].type
                /\ apiEvents[i + 1].data = EventsOf(rx)[i]

C7_Witness ==
    /\ clientPc = "reading"
    /\ Len(apiEvents) = 3
    /\ apiEvents[2].type = "web_search.results"
    /\ apiEvents[3].type = "response.completed"

IsPrefix(a, b) == Len(a) <= Len(b) /\ SubSeq(b, 1, Len(a)) = a

\* C9: a step that ends a request with an error leaves the entries the
\* event log had, shows one error message, and removes from the
\* conversation the in-progress assistant message (its last message) and
\* nothing else.
C9_ErrorDiscardsOnlyTheInProgressMessage ==
    [][(clientPc # "idle" /\ clientPc' = "idle" /\ error' # None) =>
          /\ IsPrefix(apiEvents, apiEvents')
          /\ Len(error') = 1
          /\ messages' = SubSeq(messages, 1, Len(messages) - 1)]_vars

\* C10: the reader's result is a function of the frames it received: for a
\* request that ended after reading a stream of well-formed records, the
\* event log content, the outcome and the final assistant text are what the
\* frame sequence alone determines, whatever the clock readings and the
\* chunk boundaries were.
C10_ResultIsAFunctionOfTheFrames ==
    (RequestEnded /\ error \notin TransportErrors /\ error # Some(SyntaxErrorMessage)) =>
        /\ [i \in 1..Len(apiEvents) - 1 |-> apiEvents[i + 1].data] = EventsOf(rx)
        /\ TypesOf(apiEvents) = <<"request">> \o TypesOf(EventsOf(rx))
        /\ (error = None) <=> (FramesOfType(rx, "error") = {})
        /\ error = None => Last(messages) = InProgress
        /\ error # None =>
              /\ error = Some(Last(rx).value.message)
              /\ \A i \in 1..Len(messages) : messages[i].id # assistantMessage.id

C10_Witness ==
    /\ RequestEnded
    /\ error = None
    /\ now = 1
    /\ Len(rx) = 4
    /\ Len(apiEvents) = 3
    /\ Last(messages).content = <<"b">>
    /\ cuts = 1

\* What the read loop leaves when the whole outbound stream of the request
\* arrives in one chunk that holds only whole records.
WholeRecordsRun ==
    LET am == [assistantMessage EXCEPT !.content = <<>>]
    IN ProcessLines([assistantMessage |-> am, messages |-> <<am>>,
                     apiEvents |-> <<[type |-> "request", timestamp |-> startTime]>>,
                     lastEventTime |-> startTime, webSearchResults |-> <<>>,
                     totalElapsedTime |-> None, rx |-> <<>>, thrown |-> None],
                    SplitLines(wire, <<>>), now, startTime)

\* The payloads of the entries of a log that were made from 'event' frames.
PayloadsOf(log) == [i \in 1..Len(log) - 1 |-> log[i + 1].data]

\* C11: when a request has ended on a response that was a readable stream
\* which the adapter has closed, the request outcome, the event log and the
\* final message text are those of reading the same bytes in whole records,
\* however the bytes were cut into read chunks.
C11_ChunkingDoesNotMatter ==
    (RequestEnded /\ http = "ok" /\ adapterPc = "closed" /\ error \notin TransportErrors) =>
        /\ error = WholeRecordsRun.thrown
        /\ PayloadsOf(apiEvents) = PayloadsOf(WholeRecordsRun.apiEvents)
        /\ error = None =>
              Last(messages).content = WholeRecordsRun.assistantMessage.content

\* The web-search frames among these frames, without their timestamps.
RECURSIVE SearchFramesOf(_)
SearchFramesOf(frames) ==
    IF Len(frames) = 0 THEN <<>>
    ELSE LET f == Head(frames)
         IN (IF f.type = "event" /\ f.value.type = "web_search.results"
             THEN <<[type |-> f.value.type, results |-> f.value.results]>>
             ELSE IF f.type = "event" /\ f.value.type = "web_search.completed"
             THEN <<[type |-> f.value.type, resultCount |-> f.value.resultCount]>>
             ELSE <<>>)
            \o SearchFramesOf(Tail(frames))

\* The web-search frames these upstream events call for, n being the length
\* of the most recent results list before them.
RECURSIVE SearchFramesFor(_, _)
SearchFramesFor(events, n) ==
    IF Len(events) = 0 THEN <<>>
    ELSE LET e == Head(events)
         IN IF e.type = "response.web_search_call.results" /\ "results" \in DOMAIN e
            THEN <<[type |-> "web_search.results",
                    results |-> [i \in 1..Len(e.results) |->
                                    [title |-> Field(e.results[i], "title"),
                                     url |-> Field(e.results[i], "url"),
                                     snippet |-> Field(e.results[i], "snippet")]]]>>
                 \o SearchFramesFor(Tail(events), Len(e.results))
            ELSE IF e.type = "response.web_search_call.completed"
            THEN <<[type |-> "web_search.completed", resultCount |-> n]>>
                 \o SearchFramesFor(Tail(events), n)
            ELSE SearchFramesFor(Tail(events), n)

\* C12: the web-search frames the adapter has emitted are, in order, one
\* web_search.results frame per upstream results event with a list, holding
\* that list's results in order as {title, url, snippet}, and one
\* web_search.completed frame per upstream completed event, whose
\* resultCount is the length of the most recent results list (0 if none).
C12_SearchFramesFollowTheUpstream ==
    SearchFramesOf(out) = SearchFramesFor(upstream, 0)

\* The result list of the most recent web_search.results frame among these
\* frames, empty if there is none.
RECURSIVE LatestResults(_)
LatestResults(frames) ==
    IF Len(frames) = 0 THEN <<>>
    ELSE LET f == Last(frames)
         IN IF f.type = "event" /\ f.value.type = "web_search.results"
            THEN f.value.results
            ELSE LatestResults(SubSeq(frames, 1, Len(frames) - 1))

C14_CompletedOnlyOnDone ==
    RequestEnded =>
        /\ (error = None) <=> (FramesOfType(rx, "done") # {})
        /\ error # None =>
              \/ error \in TransportErrors
              \/ error = Some(SyntaxErrorMessage)
              \/ Len(rx) > 0 /\ Last(rx).type = "error"

\* The reader has received the terminal frame of the request.
TerminalReceived == FramesOfType(rx, "done") \cup FramesOfType(rx, "error") # {}

C16_OneRequestInFlight ==
    /\ [](isLoading <=> clientPc \in {"fetching", "reading"})
    /\ [][/\ turns' # turns => (~isLoading /\ clientPc = "idle")
          /\ refused' # refused =>
                UNCHANGED <<now, adapterVars, http, reactVars, localVars, history,
                            requestVars, cancelled, unnoticed, other>>]_vars

C16_Witness ==
    /\ refused = 1
    /\ isLoading
    /\ clientPc = "reading"
    /\ Len(rx) = 1
    /\ turns = 2

\* The upstream session is asked for the web-search tool.
WebSearchRequested(args) ==
    "tools" \in DOMAIN args /\ \E i \in 1..Len(args.tools) : args.tools[i].type = "web_search_preview"

\* C19: no upstream session is opened before the request reaches the
\* adapter; once it has, exactly one was opened, its input is the messages
\* of the request body in order with role and content unchanged, and the
\* web-search tool is requested exactly when the body's enableWebSearch is
\* true.
C19_OneSessionWithTheRequest ==
    /\ http \in {"none", "sent"} => sessions = <<>>
    /\ http \in {"ok", "fail"} =>
          /\ Len(sessions) = 1
          /\ sessions[1].input = body.messages
          /\ WebSearchRequested(sessions[1]) <=> body.enableWebSearch

\* C20: a request the adapter has answered has HTTP 200 and a started frame
\* stream, or, when opening the upstream session failed, a non-200 status
\* and no frame written; in the second case the request, once ended, has
\* an error shown and no assistant placeholder in the conversation.
C20_NonSuccessEndsRequestAsFailed ==
    /\ http = "ok" => adapterPc # "none" /\ Len(sessions) = 1
    /\ http = "fail" => adapterPc = "none" /\ out = <<>> /\ wire = <<>>
    /\ (RequestEnded /\ http = "fail") =>
          /\ error # None
          /\ ~isLoading
          /\ rx = <<>>
          /\ \A i \in 1..Len(messages) : messages[i].id # assistantMessage.id

C20_Witness ==
    /\ RequestEnded
    /\ http = "fail"
    /\ error = Some("Failed to send message")
    /\ turns = 2
    /\ Len(messages) = 2

\* The invocation that serves the client's request, as a record.
Own ==
    [pc |-> adapterPc, upstream |-> upstream, currentMessage |-> currentMessage,
     lastEventType |-> lastEventType, webSearchResults |-> adapterSearchResults,
     out |-> out, raised |-> raised]

\* How the iteration of this invocation stopped, apart from a terminal event.
StopOf(inv) ==
    IF inv.raised # None THEN AThrow(inv.raised[1])
    ELSE IF /\ inv.pc = "closed"
            /\ ~(/\ Len(inv.upstream) > 0
                 /\ Last(inv.upstream).type \in
                       {"response.completed", "response.failed", "response.incomplete"})
         THEN TheEnd
         ELSE [kind |-> "none"]

\* The frames an invocation of handler r emits when it runs alone on these
\* upstream events from these accumulators, and stops this way.
RECURSIVE FramesAlone(_, _, _, _, _, _)
FramesAlone(r, events, cm, wsr, last, stop) ==
    IF Len(events) = 0
    THEN CASE stop.kind = "end" -> SafetyNetFrames(last)
           [] stop.kind = "throw" -> CatchFrames(stop.thrown.isError, stop.thrown.message)
           [] OTHER -> <<>>
    ELSE LET e == Head(events)
             h == Handle(r, e, cm, wsr, ServerNow)
         IN IF e.type = "" THEN FramesAlone(r, Tail(events), cm, wsr, last, stop)
            ELSE (IF h.ctl = "throw" THEN CatchFrames(TRUE, h.msg) ELSE h.frames)
                 \o FramesAlone(r, Tail(events), h.cm, h.wsr, e.type, stop)

Isolated(inv) == inv.out = FramesAlone(route, inv.upstream, <<>>, <<>>, "", StopOf(inv))

\* C17: whatever the interleaving of two concurrent invocations, the frames
\* each has emitted are the frames it emits when it runs alone on its own
\* upstream events.
C17_InvocationsAreIsolated == Isolated(Own) /\ Isolated(other)

C17_Witness ==
    /\ route = "part_000"
    /\ upstream = <<[type |-> "response.output_text.delta", delta |-> <<"a">>]>>
    /\ Len(other.out) = 2
    /\ other.out[1] = TextFrame(<<"b">>)
    /\ other.out[2].value.type = "response.output_text.done"
    /\ other.out[2].value.finalText = <<"b">>

\* C18: once the client has closed the connection, the adapter does not go
\* on reading upstream events up to the end of the upstream session: it
\* leaves the loop, abandoning the session, before that.
C18_ClosedConnectionAbandonsUpstream ==
    ~(cancelled /\ unnoticed > 0 /\ adapterPc = "drained")

\* The kinds that end an upstream session.
TerminalKinds == {"response.completed", "response.failed", "response.incomplete"}

\* The upstream session of the request was exhausted without a terminal
\* event and without a throw, and the adapter has closed the stream.
ExhaustedWithoutTerminal ==
    /\ adapterPc = "closed"
    /\ raised = None
    /\ \A i \in 1..Len(upstream) : upstream[i].type \notin TerminalKinds

\* C21: when the upstream session was exhausted after lifecycle events or
\* deltas without response.completed, response.failed or
\* response.incomplete, the last two frames of the adapter are the 'event'
\* frame of a response.completed and 'done'; and the request, once ended on
\* that stream, has no error and the conversation ends with its assistant
\* message holding the concatenation of the deltas.
C21_ExhaustionEndsAsCompleted ==
    ExhaustedWithoutTerminal =>
        /\ Len(out) >= 2
        /\ out[Len(out) - 1] = EventFrame([type |-> "response.completed"])
        /\ Last(out) = DoneFrame
        /\ (RequestEnded /\ error \notin TransportErrors) =>
              /\ error = None
              /\ Last(messages).id = assistantMessage.id
              /\ Last(messages).content = DeltasOf(upstream)

CompletedRead == \E i \in 1..Len(upstream) : upstream[i].type = "response.completed"

\* C23: once the adapter has read response.completed, it has emitted the
\* 'event' frame of that event and then 'done' as its last two frames and
\* has closed the stream, response.completed being the last upstream event
\* it read; from then on no step of the request reads an upstream event or
\* emits a frame.
C23_CompletedEndsTheStream ==
    /\ [](CompletedRead =>
            /\ adapterPc = "closed"
            /\ pending = None
            /\ Last(upstream).type = "response.completed"
            /\ Len(out) >= 2
            /\ out[Len(out) - 1] = EventFrame(Last(upstream))
            /\ Last(out) = DoneFrame
            /\ FramesOfType(out, "done") = {Len(out)})
    /\ [][(CompletedRead /\ turns' = turns) =>
             UNCHANGED <<upstream, pending, out, wire, adapterPc>>]_vars

C23_Witness ==
    /\ adapterPc = "closed"
    /\ Len(upstream) = 2
    /\ upstream[1].type = "response.created"
    /\ upstream[2].type = "response.completed"
    /\ out = <<EventFrame(upstream[1]), EventFrame(upstream[2]), DoneFrame>>
    /\ delivered < MaxUpstream

\* An upstream event of a kind the switch of handler r has no case for, or
\* without a kind.
Unrecognized(r, e) == e.type \notin CaseLabels(r)

\* These upstream events as if the unrecognized ones had not occurred.
RECURSIVE WithoutUnrecognized(_, _)
WithoutUnrecognized(r, events) ==
    IF Len(events) = 0 THEN <<>>
    ELSE (IF Unrecognized(r, Head(events)) THEN <<>> ELSE <<Head(events)>>)
         \o WithoutUnrecognized(r, Tail(events))

\* C24: reading an upstream event of an unrecognized kind, or without a
\* kind, emits no frame, raises no failure and leaves the stream open; and
\* the frames the adapter has emitted, the terminal frame included, are
\* those it emits on the same session without the unrecognized events.
C24_UnrecognizedEventsAreDropped ==
    /\ [](out = FramesAlone(route, WithoutUnrecognized(route, upstream),
                            <<>>, <<>>, "", StopOf(Own)))
    /\ [][(Len(upstream') = Len(upstream) + 1 /\ Unrecognized(route, Last(upstream'))) =>
             /\ UNCHANGED <<out, wire, raised>>
             /\ adapterPc' = "iterating"]_vars

C24_Witness ==
    /\ adapterPc = "closed"
    /\ Len(upstream) = 3
    /\ upstream[1].type = "response.future"
    /\ upstream[2].type = "response.output_text.delta"
    /\ upstream[3].type = ""
    /\ out = <<TextFrame(<<"a">>), EventFrame([type |-> "response.completed"]), DoneFrame>>

\* The adapter has read the upstream's response.incomplete.
IncompleteRead == \E i \in 1..Len(upstream) : upstream[i].type = "response.incomplete"

\* The upstream event carries incomplete details.
HasIncompleteDetails(e) ==
    "response" \in DOMAIN e /\ "incomplete_details" \in DOMAIN e.response

\* C25: once the adapter has read response.incomplete, it has emitted one
\* 'error' frame, its last frame, whose message says the response is
\* incomplete and which carries the event's incomplete details exactly when
\* the event has them, and has closed the stream; it has emitted no 'done'
\* frame and no response.completed event frame, and from then on no step
\* of the request reads an upstream event or emits a frame.
C25_IncompleteBecomesOneErrorFrame ==
    /\ [](IncompleteRead =>
            LET e == Last(upstream)
                f == Last(out)
            IN /\ e.type = "response.incomplete"
               /\ adapterPc = "closed"
               /\ pending = None
               /\ FramesOfType(out, "error") = {Len(out)}
               /\ FramesOfType(out, "done") = {}
               /\ \A i \in FramesOfType(out, "event") :
                      out[i].value.type # "response.completed"
               /\ f.value.message = "Response incomplete"
               /\ ("details" \in DOMAIN f.value) <=> HasIncompleteDetails(e)
               /\ HasIncompleteDetails(e) =>
                      f.value.details = e.response.incomplete_details)
    /\ [][(IncompleteRead /\ turns' = turns) =>
             UNCHANGED <<upstream, pending, out, wire, adapterPc>>]_vars

C25_Witness ==
    /\ adapterPc = "closed"
    /\ Len(upstream) = 2
    /\ upstream[1].type = "response.output_text.delta"
    /\ upstream[2].type = "response.incomplete"
    /\ Len(out) = 2
    /\ out[2] = ErrorFrame([message |-> "Response incomplete", details |-> "max_tokens"])
    /\ delivered < MaxUpstream

\* A line that has the 'data: ' marker and a payload that is not valid JSON.
BadRecord(line) ==
    /\ StartsWithMarker(line)
    /\ ~IsSentinel(AfterMarker(line))
    /\ ~JsonParse(AfterMarker(line)).ok

\* The frames of the well-formed records among these lines that come
\* before the first bad record.
RECURSIVE FramesBeforeBad(_)
FramesBeforeBad(lines) ==
    IF Len(lines) = 0 \/ BadRecord(Head(lines)) THEN <<>>
    ELSE (IF StartsWithMarker(Head(lines)) /\ ~IsSentinel(AfterMarker(Head(lines)))
          THEN <<JsonParse(AfterMarker(Head(lines))).value>> ELSE <<>>)
         \o FramesBeforeBad(Tail(lines))

\* C26: a read whose chunk holds a record with the 'data: ' marker and a
\* payload that is not valid JSON ends the request: an error is shown,
\* loading ends, the in-progress assistant message is no longer in the
\* conversation, the frames of the records before the bad one have been
\* processed and the event log keeps its entries with theirs added; and
\* once a request has ended that way nothing more of its stream is read
\* or processed.
C26_MalformedRecordIsFatal ==
    /\ [][(turns' = turns /\ rd' > rd
           /\ \E i \in 1..Len(SplitLines(SubSeq(wire, rd + 1, rd'), <<>>)) :
                 BadRecord(SplitLines(SubSeq(wire, rd + 1, rd'), <<>>)[i])) =>
             /\ error' = Some(SyntaxErrorMessage)
             /\ ~isLoading'
             /\ clientPc' = "idle"
             /\ \A i \in 1..Len(messages') : messages'[i].id # assistantMessage'.id
             /\ rx' = rx \o FramesBeforeBad(SplitLines(SubSeq(wire, rd + 1, rd'), <<>>))
             /\ IsPrefix(apiEvents, apiEvents')
             /\ PayloadsOf(apiEvents') = EventsOf(rx')]_vars
    /\ [][(error = Some(SyntaxErrorMessage) /\ turns' = turns) =>
             UNCHANGED <<rd, rx, apiEvents, messages, assistantMessage, error,
                         isLoading, clientPc>>]_vars

C26_Witness ==
    /\ error = Some(SyntaxErrorMessage)
    /\ clientPc = "idle"
    /\ Len(rx) = 1
    /\ rx[1].type = "event"
    /\ Len(apiEvents) = 2
    /\ rd < Len(wire)
    /\ adapterPc = "closed"

\* C27: every response.output_text.done event frame the adapter has
\* emitted carries a final text that is the concatenation, in order, of
\* the values of the 'text' frames emitted before it in the request.
C27_FinalTextIsTheTextFramesSoFar ==
    \A i \in FramesOfType(out, "event") :
        out[i].value.type = "response.output_text.done" =>
            /\ "finalText" \in DOMAIN out[i].value
            /\ out[i].value.finalText = TextOf(SubSeq(out, 1, i - 1))

C27_Witness ==
    /\ Len(out) = 3
    /\ out[1] = TextFrame(<<"a">>)
    /\ out[2] = TextFrame(<<"b">>)
    /\ out[3].type = "event"
    /\ out[3].value.type = "response.output_text.done"
    /\ out[3].value.finalText = <<"a", "b">>

\* C28: every 'event' frame the adapter emits while handling an upstream
\* event has a value that holds a capture timestamp and every field of
\* that event's payload (the kind aside, which the web-search frames
\* rename).
C28_EventFramesWrapPayloadWithTimestamp ==
    [][(pending # None /\ pending[1].kind = "event" /\ turns' = turns) =>
          \A i \in (Len(out) + 1)..Len(out') :
              out'[i].type = "event" =>
                  /\ "timestamp" \in DOMAIN out'[i].value
                  /\ \A x \in DOMAIN pending[1].event \ {"type"} :
                        /\ x \in DOMAIN out'[i].value
                        /\ out'[i].value[x] = pending[1].event[x]]_vars

\* The values of the 'text' frames among these frames, in order.
RECURSIVE TextValuesOf(_)
TextValuesOf(frames) ==
    IF Len(frames) = 0 THEN <<>>
    ELSE (IF Head(frames).type = "text" THEN <<Head(frames).value>> ELSE <<>>)
         \o TextValuesOf(Tail(frames))

\* The fragments of the content-delta events among these upstream events
\* that are not empty, in order.
RECURSIVE FragmentsOf(_)
FragmentsOf(events) ==
    IF Len(events) = 0 THEN <<>>
    ELSE (IF Head(events).type = "response.output_text.delta" /\ Head(events).delta # <<>>
          THEN <<Head(events).delta>> ELSE <<>>)
         \o FragmentsOf(Tail(events))

\* C29: the 'text' frames the adapter has emitted are, in order, one per
\* upstream content delta read whose fragment is not empty, each carrying
\* that fragment alone; a delta with an empty fragment has no frame, and no
\* 'text' frame has an empty value.
C29_TextFramesAreTheFragments ==
    /\ TextValuesOf(out) = FragmentsOf(upstream)
    /\ \A i \in FramesOfType(out, "text") : out[i].value # <<>>

C29_Witness ==
    /\ Len(upstream) = 3
    /\ upstream[1] = [type |-> "response.output_text.delta", delta |-> <<"a">>]
    /\ upstream[2] = [type |-> "response.output_text.delta", delta |-> <<>>]
    /\ upstream[3] = [type |-> "response.output_text.delta", delta |-> <<"b">>]
    /\ out = <<TextFrame(<<"a">>), TextFrame(<<"b">>)>>

\* The upstream lifecycle kinds: those the adapter answers with an 'event'
\* frame.
LifecycleKinds ==
    PassThroughAdded \cup PassThroughDone \cup WebSearchKinds
    \cup {"response.output_text.done", "response.completed"}

\* The kind of the frame emitted for an upstream lifecycle event of kind k.
NormalizedKind(k) ==
    CASE k = "response.web_search_call.searching" -> "web_search.started"
      [] k = "response.web_search_call.results" -> "web_search.results"
      [] k = "response.web_search_call.completed" -> "web_search.completed"
      [] k = "response.web_search_call.failed" -> "web_search.failed"
      [] OTHER -> k

\* The normalized kinds of the lifecycle events among these upstream
\* events, in order.
RECURSIVE LifecycleKindsOf(_)
LifecycleKindsOf(events) ==
    IF Len(events) = 0 THEN <<>>
    ELSE (IF Head(events).type \in LifecycleKinds
          THEN <<NormalizedKind(Head(events).type)>> ELSE <<>>)
         \o LifecycleKindsOf(Tail(events))

\* C30: the kinds of the 'event' frames the adapter has emitted are, in
\* order, the normalized kinds of the upstream lifecycle events read so
\* far, one frame per event, followed by a response.completed exactly when
\* the upstream was exhausted without a terminal event.
C30_EventFramesFollowTheUpstream ==
    TypesOf(EventsOf(out)) =
        LifecycleKindsOf(upstream)
        \o (IF StopOf(Own).kind = "end" THEN <<"response.completed">> ELSE <<>>)

\* The entries of a log that were made from response.completed event frames.
CompletedEntries(log) == {i \in 1..Len(log) : log[i].type = "response.completed"}

\* The greatest element of a non-empty set of numbers.
Greatest(S) == CHOOSE i \in S : \A j \in S : j <= i

\* C31: the total elapsed time is unset before any submission and from
\* the submission until an 'event' frame of kind response.completed is
\* processed; it is then that entry's timestamp minus the request start
\* time; a request that processes no such frame leaves it unset.
C31_TotalElapsedOnlyOnCompleted ==
    IF CompletedEntries(apiEvents) = {}
    THEN totalElapsedTime = None
    ELSE totalElapsedTime =
            Some(apiEvents[Greatest(CompletedEntries(apiEvents))].timestamp - startTime)

C31_Witness ==
    /\ RequestEnded
    /\ startTime = 0
    /\ Len(apiEvents) = 3
    /\ apiEvents[2].type = "web_search.results"
    /\ apiEvents[2].timestamp = 0
    /\ apiEvents[3].type = "response.completed"
    /\ totalElapsedTime = Some(1)

\* The frame is the 'event' frame of a response.completed.
IsCompletedFrame(f) == f.type = "event" /\ f.value.type = "response.completed"

\* C32: every 'done' frame the adapter has emitted comes right after an
\* 'event' frame of kind response.completed, and no 'error' frame has a
\* response.completed event frame anywhere before it.
C32_DoneFollowsCompletedAndErrorDoesNot ==
    /\ \A i \in FramesOfType(out, "done") : i > 1 /\ IsCompletedFrame(out[i - 1])
    /\ \A i \in FramesOfType(out, "error") : \A j \in 1..(i - 1) : ~IsCompletedFrame(out[j])

C32_Witness ==
    /\ adapterPc = "closed"
    /\ Len(upstream) = 2
    /\ upstream[1].type = "response.output_text.delta"
    /\ upstream[2].type = "response.output_item.done"
    /\ Len(out) = 4
    /\ IsCompletedFrame(out[3])
    /\ out[4] = DoneFrame

\* The conversation before the submission of the request in flight had
\* this many messages: the body of the request holds them and the new user
\* message.
EarlierTurns == Len(body.messages) - 1

\* C34: the ids of the messages of the conversation are pairwise distinct,
\* and a step of a request (an in-place update or the rollback by id)
\* leaves the messages of the earlier turns and the user message of the
\* request as they were.
C34_IdsAreDistinct ==
    /\ [](\A i, j \in 1..Len(messages) : i # j => messages[i].id # messages[j].id)
    /\ [][(turns > 0 /\ turns' = turns) =>
             /\ Len(messages') >= EarlierTurns + 1
             /\ SubSeq(messages', 1, EarlierTurns + 1) =
                   SubSeq(messages, 1, EarlierTurns + 1)]_vars

\* C33: a submission appends the new user message and one assistant
\* message to the conversation; the steps of the request leave the earlier
\* messages and the user message as they were; and when the request has
\* ended the conversation is the earlier one followed by the user message
\* and, if the request ended without error, by one assistant message.
C33_SubmissionHasAFixedShape ==
    /\ [](RequestEnded =>
            /\ Len(messages) = EarlierTurns + (IF error = None THEN 2 ELSE 1)
            /\ messages[EarlierTurns + 1].role = "user"
            /\ RoleAndContent(SubSeq(messages, 1, EarlierTurns + 1)) = body.messages
            /\ error = None => Last(messages).role = "assistant")
    /\ [][turns' # turns =>
             /\ Len(messages') = Len(messages) + 2
             /\ SubSeq(messages', 1, Len(messages)) = messages
             /\ messages'[Len(messages) + 1].role = "user"
             /\ messages'[Len(messages) + 2].role = "assistant"]_vars
    /\ [][(turns > 0 /\ turns' = turns /\ Len(messages') >= EarlierTurns + 1) =>
             \A i \in 1..(EarlierTurns + 1) : messages'[i] = messages[i]]_vars

\* C35: every request that has been started leaves the loading state,
\* whatever its outcome; and whenever none is loading, the guard of
\* handleSubmit accepts a submission that is not blank.
C35_LoadingEnds ==
    /\ isLoading ~> ~isLoading
    /\ [](~isLoading => \A input \in Inputs : ~RefusesSubmission(input))

C35_Witness ==
    /\ turns = 2
    /\ isLoading
    /\ Len(messages) = 3
    /\ error = None

\* C36: when the stream ends and the reader has received no terminal
\* frame, the request ends without an error being set and with the
\* conversation as it was, the assistant message holding the text received.
C36_EndWithoutTerminalFrameIsNotAFailure ==
    [][(/\ clientPc = "reading"
        /\ clientPc' = "idle"
        /\ rd' = rd
        /\ ~TerminalReceived) =>
          /\ error' = None
          /\ messages' = messages
          /\ Last(messages') = InProgress]_vars

C36_Witness ==
    /\ RequestEnded
    /\ rd = Len(wire)
    /\ rd > 0
    /\ ~TerminalReceived
    /\ error = None
    /\ Len(rx) = 1
    /\ rx[1].type = "text"
    /\ Last(messages).content = <<"a">>

\* C37: a submission clears the error banner, unsets the total elapsed
\* time, empties the search-results view, replaces the event log by one
\* 'request' entry stamped with the start time of the request, and keeps
\* every message the conversation had, in place.
C37_SubmissionResetsTheRequestViews ==
    [][turns' # turns =>
          /\ error' = None
          /\ totalElapsedTime' = None
          /\ webSearchResults' = <<>>
          /\ apiEvents' = <<[type |-> "request", timestamp |-> startTime']>>
          /\ IsPrefix(messages, messages')]_vars

C37_Witness ==
    /\ turns = 2
    /\ clientPc = "fetching"
    /\ error = None
    /\ totalElapsedTime = None
    /\ webSearchResults = <<>>
    /\ Len(apiEvents) = 1
    /\ Len(messages) = 4
    /\ messages[2].content = <<"a">>
    /\ delivered = 3

\* The messages of this role among these messages.
OfRole(msgs, role) == {i \in 1..Len(msgs) : msgs[i].role = role}

\* C38: the body sent by a submission holds, in order and with role and
\* content, the conversation as it stood before the submission followed by
\* the new user message, and not the placeholder the submission appends;
\* it holds one user message per turn so far, failed turns included; and a
\* turn that has failed leaves no assistant message of its own in the
\* conversation the next body is made from.
C38_BodyIsTheConversationAndTheUserMessage ==
    /\ [][turns' # turns =>
             /\ body'.messages =
                   RoleAndContent(messages)
                   \o <<[role |-> "user", content |-> messages'[Len(messages) + 1].content]>>
             /\ body'.messages = RoleAndContent(SubSeq(messages', 1, Len(messages') - 1))
             /\ Last(messages') = [assistantMessage' EXCEPT !.content = <<>>]]_vars
    /\ [](Cardinality(OfRole(body.messages, "user")) = turns)
    /\ []((RequestEnded /\ error # None) =>
             /\ Last(messages).role = "user"
             /\ \A i \in 1..Len(messages) : messages[i].id # assistantMessage.id)

C38_Witness ==
    /\ turns = 2
    /\ clientPc = "fetching"
    /\ Len(messages) = 3
    /\ Len(body.messages) = 2
    /\ body.messages[1].role = "user"
    /\ body.messages[2].role = "user"

====
